---- MODULE Spec2Model ----
(***************************************************************************)
(* Model of the terminal resume viewer, src/terminal/resume.js:           *)
(*   - RawInputStream._onData: the key decoder (chunk -> keypress event)   *)
(*   - the prologue timer, onEnterPressed and onKeyPressed: the scroll     *)
(*     controller driving ResumePrinter and stdin.                         *)
(* Text is a sequence of UTF-16 code units (naturals); key names are       *)
(* strings.  One step of the model is one callback of the event loop run   *)
(* to completion: a timer tick or a chunk arriving on stdin.               *)
(***************************************************************************)
EXTENDS Integers, Sequences, FiniteSets, TLC

VARIABLES
    chunk,        \* the last chunk that arrived on stdin
    keys,         \* the keypress events emitted by _onData in the last step
    lastEvent,    \* kind of the last step: "init", "tick", "data", "paused"
    timerActive,  \* the prologue setInterval timer has not been cleared
    index,        \* prologue characters written so far (closure variable index)
    listeners,    \* input.events listeners of 'keypress', in subscription order
    startIndex,   \* closure variable startIndex of onKeyPressed
    rawMode,      \* stdin raw mode flag (stdin.setRawMode)
    flowing,      \* stdin is resumed (data events are delivered)
    out,          \* what the last step wrote to stdout, as tokens
    pauseCalls,   \* number of stdin.pause() calls so far
    resetCalls,   \* number of printer.reset() calls so far
    resumeLines,  \* the content collection: items [year, hr], hr for HORIZONTAL_LINE
    rows,         \* stdout.rows
    columns,      \* stdout.columns
    screen,       \* the lines written by the last printScreen call
    raw           \* the bytes read from the terminal, <<>> when the chunk is given as text

vars == <<chunk, keys, lastEvent, timerActive, index, listeners, startIndex,
          rawMode, flowing, out, pauseCalls, resetCalls,
          resumeLines, rows, columns, screen, raw>>

(***************************************************************************)
(* Bounds of the model.                                                    *)
(***************************************************************************)
\* number of entries of resumeLines (scaled down)
NumLines == 4
\* prologue.length, the number of characters of the banner (scaled down)
PrologueLen == 3
\* longest key code drawn over GrammarAlphabet (the text after the ESC characters)
MaxBodyLen == 5
\* largest number of leading ESC characters put in front of a key code
MaxEsc == 2
\* largest code unit of the single-character chunks
MaxCode == 127
\* longest content collection handed to printScreen on its own
MaxLines == 3
\* largest stdout.rows
MaxRows == 10
\* largest stdout.columns
MaxColumns == 17

(***************************************************************************)
(* Characters.                                                             *)
(***************************************************************************)
ESC == 27
CR == 13
LF == 10
CtrlZ == 26
CharA == 97
LBracket == 91
CharO == 79
CharN == 78
Semicolon == 59
Tilde == 126
Caret == 94
Dollar == 36
Digit0 == 48
Digit1 == 49
Digit5 == 53
Digit6 == 54
UpperA == 65
UpperB == 66
UpperC == 67
UpperD == 68
UpperZ == 90
LowerZ == 122
\* the high bit of a byte
HighBit == 128
\* U+FFFD, what the utf8 decoding writes for a byte that starts no character
ReplacementChar == 65533
\* the first bytes of the multi-byte utf8 characters
LeadByteMin == 194
LeadByteMax == 244
\* the bytes a decoder may or may not take for the first byte of a character
LooseLeadBytes == {192, 193, 245, 246, 247}

IsDigit(c) == c >= Digit0 /\ c <= Digit0 + 9
IsLetter(c) == (c >= UpperA /\ c <= UpperZ) \/ (c >= CharA /\ c <= LowerZ)
IsSymbol(c) == c \in {Tilde, Caret, Dollar}

\* String.fromCharCode for the code units the ctrl branch can produce (96..122);
\* "U+0060" stands for the one-character string of code unit 96, the grave accent
LowerChars == <<"U+0060", "a", "b", "c", "d", "e", "f", "g", "h", "i", "j", "k", "l", "m",
                "n", "o", "p", "q", "r", "s", "t", "u", "v", "w", "x", "y", "z">>
fromCharCode(n) == LowerChars[n - 95]

\* s[i] or -1 past the end (an undefined character matches nothing)
At(s, i) == IF i >= 1 /\ i <= Len(s) THEN s[i] ELSE -1
Slice(s, a, b) == IF a > b THEN <<>> ELSE SubSeq(s, a, b)

\* length of the longest run of digits of s starting at position i (\d+ is greedy)
RECURSIVE DigitRun(_, _)
DigitRun(s, i) == IF IsDigit(At(s, i)) THEN 1 + DigitRun(s, i + 1) ELSE 0

\* length of the run of leading ESC characters (\x1b+ is greedy)
RECURSIVE EscRun(_, _)
EscRun(s, i) == IF At(s, i) = ESC THEN 1 + EscRun(s, i + 1) ELSE 0

\* numeric value of a string of decimal digits (the implicit ToNumber of `- 1`)
RECURSIVE ToNumber(_)
ToNumber(d) == IF d = <<>> THEN 0
               ELSE 10 * ToNumber(SubSeq(d, 1, Len(d) - 1)) + (d[Len(d)] - Digit0)

NoMatch == [matched |-> FALSE, p1 |-> <<>>, p2 |-> <<>>, p3 |-> <<>>,
            p4 |-> <<>>, p5 |-> <<>>, p6 |-> <<>>]

\* first alternative after the introducer: (\d+)(?:;(\d+))?([~^$])
SymbolForm(s, i, intro) ==
    LET d1 == DigitRun(s, i)
        j  == i + d1
        d2 == DigitRun(s, j + 1)
    IN  IF d1 = 0 THEN NoMatch
        ELSE IF At(s, j) = Semicolon /\ d2 > 0 /\ IsSymbol(At(s, j + 1 + d2))
        THEN [matched |-> TRUE, p1 |-> intro, p2 |-> Slice(s, i, j - 1),
              p3 |-> Slice(s, j + 1, j + d2), p4 |-> <<At(s, j + 1 + d2)>>,
              p5 |-> <<>>, p6 |-> <<>>]
        ELSE IF IsSymbol(At(s, j))
        THEN [matched |-> TRUE, p1 |-> intro, p2 |-> Slice(s, i, j - 1),
              p3 |-> <<>>, p4 |-> <<At(s, j)>>, p5 |-> <<>>, p6 |-> <<>>]
        ELSE NoMatch

\* (\d+)?([a-zA-Z]) starting at position i
DigitsLetter(s, i, intro) ==
    LET d == DigitRun(s, i)
    IN  IF IsLetter(At(s, i + d))
        THEN [matched |-> TRUE, p1 |-> intro, p2 |-> <<>>, p3 |-> <<>>, p4 |-> <<>>,
              p5 |-> Slice(s, i, i + d - 1), p6 |-> <<At(s, i + d)>>]
        ELSE NoMatch

\* second alternative after the introducer: (?:1;)?(\d+)?([a-zA-Z])
LetterForm(s, i, intro) ==
    IF At(s, i) = Digit1 /\ At(s, i + 1) = Semicolon
       /\ DigitsLetter(s, i + 2, intro).matched
    THEN DigitsLetter(s, i + 2, intro)
    ELSE DigitsLetter(s, i, intro)

\* (?:form1|form2) after an introducer ending before position i
Body(s, i, intro) ==
    IF SymbolForm(s, i, intro).matched THEN SymbolForm(s, i, intro)
    ELSE LetterForm(s, i, intro)

IntroducersNoDouble == << <<CharO>>, <<CharN>>, <<LBracket>> >>

\* the introducers (O|N|\[|\[\[), tried in this order
Introducers == << <<CharO>>, <<CharN>>, <<LBracket>>, <<LBracket, LBracket>> >>

RECURSIVE TryIntroducers(_, _, _)
TryIntroducers(s, i, k) ==
    IF k > Len(Introducers) THEN NoMatch
    ELSE LET intro == Introducers[k]
         IN  IF i + Len(intro) - 1 <= Len(s)
                /\ Slice(s, i, i + Len(intro) - 1) = intro
                /\ Body(s, i + Len(intro), intro).matched
             THEN Body(s, i + Len(intro), intro)
             ELSE TryIntroducers(s, i, k + 1)

\* functionKeyCodeRegex.exec(sequence); an empty part is an undefined group
functionKeyCodeRegexExec(s) ==
    LET e == EscRun(s, 1)
    IN  IF e = 0 THEN NoMatch ELSE TryIntroducers(s, e + 1, 1)

\* the switch over the reassembled code
KeyNameOf(code) ==
    CASE code = <<LBracket, UpperA>> -> "up"
      [] code = <<LBracket, UpperB>> -> "down"
      [] code = <<LBracket, UpperC>> -> "right"
      [] code = <<LBracket, UpperD>> -> "left"
      [] code = <<CharO, UpperA>> -> "up"
      [] code = <<CharO, UpperB>> -> "down"
      [] code = <<CharO, UpperC>> -> "right"
      [] code = <<CharO, UpperD>> -> "left"
      [] code = <<LBracket, Digit5, Tilde>> -> "page-up"
      [] code = <<LBracket, Digit6, Tilde>> -> "page-down"
      [] code = <<LBracket, LBracket, Digit5, Tilde>> -> "page-up"
      [] code = <<LBracket, LBracket, Digit6, Tilde>> -> "page-down"
      [] OTHER -> ""

ModifierNoOffset(parts) ==
    IF parts.p3 # <<>> THEN ToNumber(parts.p3)
    ELSE IF parts.p5 # <<>> THEN ToNumber(parts.p5)
    ELSE 1

\* (parts[3] || parts[5] || 1) - 1
Modifier(parts) ==
    (IF parts.p3 # <<>> THEN ToNumber(parts.p3)
     ELSE IF parts.p5 # <<>> THEN ToNumber(parts.p5)
     ELSE 1) - 1

HasControlBitMask2(m) == (m % 4) >= 2

\* !!(modifier & 4): bit 2 of the twos complement of modifier
HasControlBit(m) == (m % 8) >= 4

LeqCtrlZStrict(s) == s = <<>> \/ s[1] < CtrlZ

\* sequence <= '\x1a' on strings: lexicographic comparison of code units
LeqCtrlZ(s) == s = <<>> \/ s[1] < CtrlZ \/ s = <<CtrlZ>>

DecodeKeyCtrlFirst(s) ==
    IF LeqCtrlZ(s)
    THEN [name |-> fromCharCode(s[1] + CharA - 1), isControl |-> TRUE]
    ELSE IF s = <<ESC>> \/ s = <<ESC, ESC>> THEN [name |-> "escape", isControl |-> FALSE]
    ELSE LET parts == functionKeyCodeRegexExec(s)
         IN  IF parts.matched
             THEN [name |-> KeyNameOf(parts.p1 \o parts.p2 \o parts.p4 \o parts.p6),
                   isControl |-> HasControlBit(Modifier(parts))]
             ELSE [name |-> "", isControl |-> FALSE]

\* the key object built by _onData for a non-empty sequence
DecodeKey(s) ==
    IF s = <<CR>> THEN [name |-> "return", isControl |-> FALSE]
    ELSE IF s = <<LF>> THEN [name |-> "line-feed", isControl |-> FALSE]
    ELSE IF s = <<ESC>> \/ s = <<ESC, ESC>> THEN [name |-> "escape", isControl |-> FALSE]
    ELSE IF LeqCtrlZ(s)
    THEN [name |-> fromCharCode(s[1] + CharA - 1), isControl |-> TRUE]
    ELSE LET parts == functionKeyCodeRegexExec(s)
         IN  IF parts.matched
             THEN [name |-> KeyNameOf(parts.p1 \o parts.p2 \o parts.p4 \o parts.p6),
                   isControl |-> HasControlBit(Modifier(parts))]
             ELSE [name |-> "", isControl |-> FALSE]

\* stdin.setEncoding('utf8'): the texts the stream may deliver for the bytes
\* of one read of at most one byte; <<>> when the byte is withheld until the
\* rest of its character arrives (no 'data' event)
setEncodingUtf8(bytes) ==
    IF bytes = <<>> THEN {<<>>}
    ELSE IF bytes[1] < HighBit THEN {bytes}
    ELSE IF bytes[1] >= LeadByteMin /\ bytes[1] <= LeadByteMax THEN {<<>>}
    ELSE IF bytes[1] \in LooseLeadBytes THEN {<<>>, <<ReplacementChar>>}
    ELSE {<<ReplacementChar>>}

\* stringDecoder.write(data) for the string the 'data' event carries: a string
stringDecoderWrite(data) == [isBuffer |-> FALSE, text |-> data]

\* the head of _onData: decoding, and the repair of a single high-bit byte
SequenceOf(data) ==
    LET sequence == stringDecoderWrite(data)
    IN  IF sequence.isBuffer
        THEN IF Len(sequence.text) = 1 /\ sequence.text[1] > HighBit - 1
             THEN <<ESC, sequence.text[1] - HighBit>>
             ELSE sequence.text
        ELSE sequence.text

\* the events _onData emits for a chunk: none for an empty sequence, else one
KeysOf(s) == IF SequenceOf(s) = <<>> THEN <<>> ELSE <<DecodeKey(SequenceOf(s))>>

(***************************************************************************)
(* ResumePrinter and stdin.  A handler works on the record st of the       *)
(* fields it can change; out collects what it writes to stdout.            *)
(***************************************************************************)
Tok(op, arg) == [op |-> op, arg |-> arg]

\* ResumePrinter.prototype.write
write(st, tok) == [st EXCEPT !.out = Append(@, tok)]

\* ResumePrinter.prototype.clearScreen
clearScreen(st) == write(write(st, Tok("ESC[2J", 0)), Tok("ESC[H", 0))

\* ResumePrinter.prototype.reset
reset(st) == clearScreen(write([st EXCEPT !.resetCalls = @ + 1], Tok("ESC[0m", 0)))

\* TEXT_COLORS
TEXT_COLORS == <<"yellow", "green", "cyan", "magenta">>
\* TEXT_COLORS[year % TEXT_COLORS.length]
ColorOf(year) == TEXT_COLORS[(year % Len(TEXT_COLORS)) + 1]

\* number of iterations of Range(0, end).forEach for a half-integer end = n / 2
HalfRangeCount(n) == IF n <= 0 THEN 0 ELSE (n + 1) \div 2

\* new Range(0, stdout.columns / 2).foldLeft([], this._createLine):
\* the number of yellowText('-') segments of separator
SeparatorDashes(c) == HalfRangeCount(c)

\* a line written by printScreen: what it is, the index it comes from, the
\* year label and the color of its gutter, the dashes of a rule and their color
ScreenLine(kind, i, label, color, dashes, dashColor) ==
    [kind |-> kind, index |-> i, label |-> label, color |-> color,
     dashes |-> dashes, dashColor |-> dashColor]

\* the header block: separator, Name, Email, GitHub, HackerRank, separator
HeaderLines(c) ==
    << ScreenLine("header", 1, -1, "", SeparatorDashes(c), "yellow"),
       ScreenLine("header", 2, -1, "yellow", 0, ""),
       ScreenLine("header", 3, -1, "green", 0, ""),
       ScreenLine("header", 4, -1, "cyan", 0, ""),
       ScreenLine("header", 5, -1, "magenta", 0, ""),
       ScreenLine("header", 6, -1, "", SeparatorDashes(c), "yellow") >>

ContentRowAlwaysLabel(ls, i, lastLineYear, c) ==
    LET item == ls[i + 1]
        hr   == item.hr
    IN  ScreenLine("row", i, item.year, ColorOf(item.year),
                   IF hr THEN SeparatorDashes(c) ELSE 0, IF hr THEN "yellow" ELSE "")

\* one iteration of the loop of printScreen for lines[i]; label -1 stands for
\* the six-space gutter
ContentRow(ls, i, lastLineYear, c) ==
    LET item == ls[i + 1]
        hr   == item.hr
    IN  ScreenLine("row", i,
                   IF item.year # lastLineYear THEN item.year ELSE -1,
                   ColorOf(item.year),
                   IF hr THEN SeparatorDashes(c) ELSE 0, IF hr THEN "yellow" ELSE "")

\* for (i = startIndex, j = 0; j < rowCount && i < lineCount; i++, j++)
RECURSIVE ContentRows(_, _, _, _, _, _)
ContentRows(ls, i, j, rowCount, lastLineYear, c) ==
    IF j < rowCount /\ i < Len(ls)
    THEN <<ContentRow(ls, i, lastLineYear, c)>>
         \o ContentRows(ls, i + 1, j + 1, rowCount, ls[i + 1].year, c)
    ELSE <<>>

PrintScreenLinesOffByOne(start, ls, r, c) ==
    HeaderLines(c) \o ContentRows(ls, start, 0, r - Len(HeaderLines(c)), -1, c)

\* everything printScreen(start, ls) writes with stdout.rows = r, stdout.columns = c
PrintScreenLines(start, ls, r, c) ==
    HeaderLines(c) \o ContentRows(ls, start, 0, r - 1 - Len(HeaderLines(c)), -1, c)

\* ResumePrinter.prototype.printScreen(startIndex, resumeLines): one full render
printScreen(st, start) ==
    [write(st, Tok("printScreen", start))
        EXCEPT !.screen = PrintScreenLines(start, resumeLines, rows, columns)]

\* stdin.pause()
stdinPause(st) == [st EXCEPT !.flowing = FALSE, !.pauseCalls = @ + 1]

\* input.events.removeAllListeners()
removeAllListeners(st) == [st EXCEPT !.listeners = <<>>]

\* the position of the last occurrence of h in ls, 0 if there is none
RECURSIVE LastIndexOf(_, _, _)
LastIndexOf(ls, h, i) ==
    IF i = 0 THEN 0 ELSE IF ls[i] = h THEN i ELSE LastIndexOf(ls, h, i - 1)

\* input.events.removeListener('keypress', h): removes the latest subscription of h
removeListener(st, h) ==
    LET ls == st.listeners
        k  == LastIndexOf(ls, h, Len(ls))
    IN  IF k = 0 THEN st
        ELSE [st EXCEPT !.listeners = Slice(ls, 1, k - 1) \o Slice(ls, k + 1, Len(ls))]

\* input.events.on('keypress', h)
on(st, h) == [st EXCEPT !.listeners = Append(@, h)]

IsCtrlC(key) == key.isControl /\ key.name = "c"

\* the first branch of both handlers: "Quit the program"
quit(st) == stdinPause(reset(removeAllListeners(st)))

startViewingKeepsEnter(st) ==
    on(printScreen(clearScreen(st), 0), "onKeyPressed")

startViewingNoRender(st) ==
    on(clearScreen(removeListener(st, "onEnterPressed")), "onKeyPressed")

\* the second branch of onEnterPressed: start showing the resume
startViewing(st) ==
    on(printScreen(clearScreen(removeListener(st, "onEnterPressed")), 0), "onKeyPressed")

onEnterPressedReturnOnly(st, key) ==
    IF IsCtrlC(key) THEN quit(st)
    ELSE IF key.name = "return" THEN startViewing(st)
    ELSE st

onEnterPressed(st, key) ==
    IF IsCtrlC(key) THEN quit(st)
    ELSE IF key.name = "return" \/ key.name = "line-feed" THEN startViewing(st)
    ELSE st

scrollByStale(st, d) ==
    LET s1 == [st EXCEPT !.startIndex = @ + d]
    IN  printScreen(clearScreen(s1), st.startIndex)

\* startIndex-- or startIndex++, then clearScreen and printScreen(startIndex, resumeLines)
scrollBy(st, d) ==
    LET s1 == [st EXCEPT !.startIndex = @ + d]
    IN  printScreen(clearScreen(s1), s1.startIndex)

onKeyPressedUpRedrawsAtTop(st) ==
    IF st.startIndex > 0 THEN scrollBy(st, -1) ELSE scrollBy(st, 0)

\* the branch key.name === 'up' of onKeyPressed
onKeyPressedUp(st) ==
    IF st.startIndex > 0 THEN scrollBy(st, -1) ELSE st

onKeyPressedDownOffByOne(st) ==
    IF st.startIndex <= NumLines - 1 THEN scrollBy(st, 1) ELSE stdinPause(reset(st))

onKeyPressedDownNoExit(st) ==
    IF st.startIndex < NumLines - 1 THEN scrollBy(st, 1) ELSE st

onKeyPressedDownNoPause(st) ==
    IF st.startIndex < NumLines - 1 THEN scrollBy(st, 1) ELSE reset(st)

\* the branch key.name === 'down' of onKeyPressed
onKeyPressedDown(st) ==
    IF st.startIndex < NumLines - 1 THEN scrollBy(st, 1) ELSE stdinPause(reset(st))

onKeyPressedRightScrolls(st, key) ==
    IF IsCtrlC(key) THEN quit(st)
    ELSE IF key.name = "up" THEN onKeyPressedUp(st)
    ELSE IF key.name = "down" \/ key.name = "right" THEN onKeyPressedDown(st)
    ELSE st

\* the 'keypress' listener of the viewing phase
onKeyPressed(st, key) ==
    IF IsCtrlC(key) THEN quit(st)
    ELSE IF key.name = "up" THEN onKeyPressedUp(st)
    ELSE IF key.name = "down" THEN onKeyPressedDown(st)
    ELSE st

Call(h, st, key) ==
    IF h = "onEnterPressed" THEN onEnterPressed(st, key) ELSE onKeyPressed(st, key)

\* EventEmitter.emit('keypress', key): every listener subscribed when the
\* emit starts is called, in order
RECURSIVE emit(_, _, _)
emit(st, hs, key) ==
    IF hs = <<>> THEN st ELSE emit(Call(Head(hs), st, key), Tail(hs), key)

\* RawInputStream.prototype._onData
_onData(st, data) ==
    IF SequenceOf(data) = <<>> THEN st
    ELSE emit(st, st.listeners, DecodeKey(SequenceOf(data)))

(***************************************************************************)
(* The chunks a user sends in the controller specification.                *)
(***************************************************************************)
CtrlCChunk == <<3>>
EnterChunk == <<CR>>
UpChunk == <<ESC, LBracket, UpperA>>
DownChunk == <<ESC, LBracket, UpperB>>
KeyChunks ==
    { <<>>, CtrlCChunk, EnterChunk, <<LF>>, UpChunk, DownChunk,
      <<ESC, CharO, UpperA>>, <<ESC, CharO, UpperB>>,
      <<ESC, LBracket, Digit1, Semicolon, Digit5, UpperB>>,
      <<ESC, LBracket, Digit6, Tilde>>, <<ESC, LBracket, UpperC>>,
      <<ESC, LBracket, Digit5, Tilde>>, <<ESC, LBracket, UpperD>>,
      <<ESC>>, <<1>>, <<113>>, <<ESC, LBracket, Digit1, Semicolon, Digit5, 99>> }

(***************************************************************************)
(* The program: state after the main function has run.                     *)
(***************************************************************************)
\* the year of the first entry of resume
FirstYear == 2005

\* toLines(resume), scaled down to NumLines lines: two lines a year, and every
\* story but the first starts with HORIZONTAL_LINE
ResumeLines ==
    [i \in 1..NumLines |->
        [year |-> FirstYear + ((i - 1) \div 2), hr |-> (i > 1 /\ (i - 1) % 2 = 0)]]

InitSubscribedEarly ==
    /\ chunk = <<>>
    /\ keys = <<>>
    /\ lastEvent = "init"
    /\ timerActive = TRUE
    /\ index = 0
    /\ listeners = <<"onEnterPressed">>
    /\ startIndex = 0
    /\ rawMode = TRUE
    /\ flowing = TRUE
    /\ out = <<Tok("ESC[7l", 0), Tok("ESC[40m", 0), Tok("ESC[2J", 0), Tok("ESC[H", 0)>>
    /\ pauseCalls = 0
    /\ resetCalls = 0
    /\ resumeLines = ResumeLines
    /\ rows = MaxRows
    /\ columns = MaxColumns
    /\ screen = <<>>
    /\ raw = <<>>

Init ==
    /\ chunk = <<>>
    /\ keys = <<>>
    /\ lastEvent = "init"
    /\ timerActive = TRUE
    /\ index = 0
    /\ listeners = <<>>
    /\ startIndex = 0
    /\ rawMode = TRUE
    /\ flowing = TRUE
    /\ out = <<Tok("ESC[7l", 0), Tok("ESC[40m", 0), Tok("ESC[2J", 0), Tok("ESC[H", 0)>>
    /\ pauseCalls = 0
    /\ resetCalls = 0
    /\ resumeLines = ResumeLines
    /\ rows = MaxRows
    /\ columns = MaxColumns
    /\ screen = <<>>
    /\ raw = <<>>

TickNoSubscribe ==
    /\ timerActive
    /\ lastEvent' = "tick"
    /\ keys' = <<>>
    /\ IF index = PrologueLen
       THEN /\ timerActive' = FALSE
            /\ out' = <<>>
            /\ UNCHANGED <<index, listeners>>
       ELSE /\ out' = <<Tok("prologue", index)>>
            /\ index' = index + 1
            /\ UNCHANGED <<timerActive, listeners>>
    /\ UNCHANGED <<chunk, startIndex, rawMode, flowing, pauseCalls, resetCalls,
                   resumeLines, rows, columns, screen, raw>>

\* the timer callback print of the prologue
Tick ==
    /\ timerActive
    /\ lastEvent' = "tick"
    /\ keys' = <<>>
    /\ IF index = PrologueLen
       THEN /\ timerActive' = FALSE
            /\ listeners' = Append(listeners, "onEnterPressed")
            /\ out' = <<>>
            /\ index' = index
       ELSE /\ out' = <<Tok("prologue", index)>>
            /\ index' = index + 1
            /\ UNCHANGED <<timerActive, listeners>>
    /\ UNCHANGED <<chunk, startIndex, rawMode, flowing, pauseCalls, resetCalls,
                   resumeLines, rows, columns, screen, raw>>

\* a chunk arrives while stdin is flowing: the 'data' listener _onData runs
StdinData(c) ==
    /\ flowing
    /\ LET st == _onData([listeners |-> listeners, startIndex |-> startIndex,
                          flowing |-> flowing, out |-> <<>>, screen |-> screen,
                          pauseCalls |-> pauseCalls, resetCalls |-> resetCalls], c)
       IN  /\ listeners' = st.listeners
           /\ screen' = st.screen
           /\ startIndex' = st.startIndex
           /\ flowing' = st.flowing
           /\ out' = st.out
           /\ pauseCalls' = st.pauseCalls
           /\ resetCalls' = st.resetCalls
    /\ chunk' = c
    /\ keys' = KeysOf(c)
    /\ lastEvent' = "data"
    /\ UNCHANGED <<timerActive, index, rawMode, resumeLines, rows, columns, raw>>

\* a chunk arrives while stdin is paused: no 'data' event, nothing runs
StdinPaused(c) ==
    /\ ~flowing
    /\ chunk' = c
    /\ keys' = <<>>
    /\ out' = <<>>
    /\ lastEvent' = "paused"
    /\ UNCHANGED <<timerActive, index, listeners, startIndex, rawMode, flowing,
                   pauseCalls, resetCalls, resumeLines, rows, columns, screen, raw>>

Next ==
    \/ Tick
    \/ \E c \in KeyChunks : StdinData(c)
    \/ \E c \in KeyChunks : StdinPaused(c)

Spec == Init /\ [][Next]_vars

\* setInterval(print, 50): while the timer is set the event loop keeps calling print
SpecFair == Spec /\ WF_vars(Tick)

\* controller states
Prologue == timerActive
AwaitStart == ~timerActive /\ flowing /\ listeners = <<"onEnterPressed">>
Viewing == flowing /\ listeners = <<"onKeyPressed">>
Terminated == ~flowing

TypeOK ==
    /\ timerActive \in BOOLEAN /\ flowing \in BOOLEAN /\ rawMode \in BOOLEAN
    /\ index \in 0..PrologueLen
    /\ Len(keys) <= 1
    /\ Prologue \/ AwaitStart \/ Viewing \/ Terminated

(***************************************************************************)
(* The decoder on its own: one chunk is delivered to _onData in the state  *)
(* right after construction (no keypress listener yet).                    *)
(***************************************************************************)
RECURSIVE Repeat(_, _)
Repeat(c, n) == IF n = 0 THEN <<>> ELSE <<c>> \o Repeat(c, n - 1)

\* the reassembled codes of the switch in _onData
TableCodes ==
    { <<LBracket, UpperA>>, <<LBracket, UpperB>>, <<LBracket, UpperC>>,
      <<LBracket, UpperD>>, <<CharO, UpperA>>, <<CharO, UpperB>>,
      <<CharO, UpperC>>, <<CharO, UpperD>>,
      <<LBracket, Digit5, Tilde>>, <<LBracket, Digit6, Tilde>>,
      <<LBracket, LBracket, Digit5, Tilde>>, <<LBracket, LBracket, Digit6, Tilde>> }

GrammarAlphabet == {LBracket, CharO, Digit1, Digit5, Semicolon, Tilde, UpperA}
PasteAlphabet == {0, 3, LF, CR, CtrlZ, ESC, UpperA}
\* the characters of sequences whose parameters are 0, 1, 10, ...
ZeroAlphabet == {Digit0, Digit1, Semicolon, Tilde, UpperA}
\* complete key sequences, the pieces of a chunk that holds more than one key
KeySequences == {<<ESC>> \o b : b \in TableCodes} \cup {<<a>> : a \in PasteAlphabet}

\* the chunk is a single character, a pair of pasted characters, a run of
\* ESC characters followed by a table code or by any text over GrammarAlphabet,
\* ESC [ followed by any text over ZeroAlphabet, or two key sequences in a row
IsChunk(c) ==
    \/ \E a \in 0..MaxCode : c = <<a>>
    \/ \E a \in PasteAlphabet, b \in PasteAlphabet : c = <<a, b>>
    \/ \E n \in 0..MaxEsc, b \in TableCodes : c = Repeat(ESC, n) \o b
    \/ \E n \in 0..MaxEsc, k \in 0..MaxBodyLen :
           \E b \in [1..k -> GrammarAlphabet] : c = Repeat(ESC, n) \o b
    \/ \E k \in 1..(MaxBodyLen - 1) :
           \E b \in [1..k -> ZeroAlphabet] : c = <<ESC, LBracket>> \o b
    \/ \E a \in KeySequences, b \in KeySequences : c = a \o b

InitDecode ==
    /\ IsChunk(chunk)
    /\ keys = <<>>
    /\ lastEvent = "init"
    /\ timerActive = TRUE
    /\ index = 0
    /\ listeners = <<>>
    /\ startIndex = 0
    /\ rawMode = TRUE
    /\ flowing = TRUE
    /\ out = <<Tok("ESC[7l", 0), Tok("ESC[40m", 0), Tok("ESC[2J", 0), Tok("ESC[H", 0)>>
    /\ pauseCalls = 0
    /\ resetCalls = 0
    /\ resumeLines = ResumeLines
    /\ rows = MaxRows
    /\ columns = MaxColumns
    /\ screen = <<>>
    /\ raw = <<>>

Decode == lastEvent = "init" /\ StdinData(chunk)

SpecDecode == InitDecode /\ [][Decode]_vars

\* the chunk has been handed to _onData
Decoded == lastEvent = "data"

(***************************************************************************)
(* The decoder behind stdin: one byte is read from the terminal, stdin      *)
(* turns it into text (setEncoding) and delivers it to _onData.             *)
(***************************************************************************)
InitBytes ==
    /\ raw \in {<<b>> : b \in 0..(2 * HighBit - 1)}
    /\ chunk = <<>>
    /\ keys = <<>>
    /\ lastEvent = "init"
    /\ timerActive = TRUE
    /\ index = 0
    /\ listeners = <<>>
    /\ startIndex = 0
    /\ rawMode = TRUE
    /\ flowing = TRUE
    /\ out = <<Tok("ESC[7l", 0), Tok("ESC[40m", 0), Tok("ESC[2J", 0), Tok("ESC[H", 0)>>
    /\ pauseCalls = 0
    /\ resetCalls = 0
    /\ resumeLines = ResumeLines
    /\ rows = MaxRows
    /\ columns = MaxColumns
    /\ screen = <<>>

\* the byte is read: 'data' with its text, or nothing while it is withheld
StdinBytes ==
    /\ lastEvent = "init"
    /\ \E text \in setEncodingUtf8(raw) :
          IF text = <<>>
          THEN /\ lastEvent' = "withheld"
               /\ UNCHANGED <<chunk, keys, timerActive, index, listeners, startIndex,
                              rawMode, flowing, out, pauseCalls, resetCalls,
                              resumeLines, rows, columns, screen, raw>>
          ELSE StdinData(text)

SpecBytes == InitBytes /\ [][StdinBytes]_vars

\* the byte has been read from the terminal
ByteRead == raw # <<>> /\ lastEvent # "init"

(***************************************************************************)
(* printScreen on its own: any content collection, any offset within it    *)
(* and any terminal geometry, rendered once.                                *)
(***************************************************************************)
\* the years of the items handed to printScreen
RenderYears == {FirstYear + 2, FirstYear + 3}

InitRender ==
    /\ chunk = <<>>
    /\ keys = <<>>
    /\ lastEvent = "init"
    /\ timerActive = FALSE
    /\ index = PrologueLen
    /\ listeners = <<"onKeyPressed">>
    /\ rawMode = TRUE
    /\ flowing = TRUE
    /\ out = <<>>
    /\ pauseCalls = 0
    /\ resetCalls = 0
    /\ screen = <<>>
    /\ raw = <<>>
    /\ \E n \in 0..MaxLines :
          \E ys \in [1..n -> RenderYears], hs \in [1..n -> BOOLEAN] :
              resumeLines = [i \in 1..n |-> [year |-> ys[i], hr |-> hs[i]]]
    /\ startIndex \in 0..(IF Len(resumeLines) = 0 THEN 0 ELSE Len(resumeLines) - 1)
    /\ rows \in 0..MaxRows
    /\ columns \in 0..MaxColumns

\* printer.printScreen(startIndex, resumeLines)
Render ==
    /\ lastEvent = "init"
    /\ LET st == printScreen([listeners |-> listeners, startIndex |-> startIndex,
                              flowing |-> flowing, out |-> <<>>, screen |-> screen,
                              pauseCalls |-> pauseCalls, resetCalls |-> resetCalls],
                             startIndex)
       IN  /\ out' = st.out
           /\ screen' = st.screen
    /\ lastEvent' = "render"
    /\ UNCHANGED <<chunk, keys, timerActive, index, listeners, startIndex, rawMode,
                   flowing, pauseCalls, resetCalls, resumeLines, rows, columns, raw>>

SpecRender == InitRender /\ [][Render]_vars

\* printScreen has just run on its own
Printed == lastEvent = "render"

(***************************************************************************)
(* Properties.                                                             *)
(***************************************************************************)
\* the last step delivered a chunk to _onData and it emitted key event(s)
KeyDelivered == lastEvent = "data" /\ keys # <<>>
TheKey == keys[1]
Wrote(tok) == \E i \in 1..Len(out) : out[i] = tok
Rendered == \E i \in 1..Len(out) : out[i].op = "printScreen"
FirstRender(i) == <<Tok("ESC[2J", 0), Tok("ESC[H", 0), Tok("printScreen", i)>>
\* a quit branch (ctrl+C, or down at the last line) has run
HasQuit == resetCalls > 0

\* C1: after any sequence of key events the scroll offset startIndex is
\* within 0 .. len(resumeLines) - 1.
C1_OffsetInRange == startIndex >= 0 /\ startIndex <= NumLines - 1

\* the offset has been scrolled down to the last line
C1_Witness ==
    /\ Viewing /\ KeyDelivered /\ TheKey.name = "down"
    /\ startIndex = NumLines - 1

C3_UpAtTopIsNoOp ==
    [][ (Viewing /\ startIndex = 0 /\ KeyDelivered' /\ TheKey'.name = "up")
        => (startIndex' = 0 /\ out' = <<>> /\ Viewing') ]_vars

\* up arrived at offset 0 (an up from offset 1 would have written a screen)
C3_Witness ==
    /\ Viewing /\ KeyDelivered /\ TheKey.name = "up"
    /\ startIndex = 0 /\ out = <<>>

\* C4: in AwaitStart and in Viewing, ctrl+C leads to Terminated and removes
\* every keypress listener, writes ESC[0m, turns raw mode off and stops stdin.
C4_CtrlCFullTeardown ==
    [][ ((AwaitStart \/ Viewing) /\ KeyDelivered' /\ IsCtrlC(TheKey'))
        => (/\ Terminated'
            /\ listeners' = <<>>
            /\ Wrote(Tok("ESC[0m", 0))'
            /\ ~rawMode'
            /\ ~flowing') ]_vars

\* C5: ctrl+C is the only trigger of termination and a ctrl+C chunk leads to
\* Terminated with the same teardown from Prologue, AwaitStart and Viewing.
C5_CtrlCFromEveryState ==
    [][ /\ ((Prologue \/ AwaitStart \/ Viewing) /\ flowing
            /\ lastEvent' = "data" /\ chunk' = CtrlCChunk)
           => (Terminated' /\ listeners' = <<>> /\ Wrote(Tok("ESC[0m", 0))')
        /\ (~Terminated /\ Terminated') => chunk' = CtrlCChunk ]_vars

\* C6: raw mode, acquired at construction, is held until Terminated is
\* entered and has been released on every path that reaches Terminated.
C6_RawModeReleased == (Terminated => ~rawMode) /\ (~Terminated => rawMode)

\* C7: once a quit branch has run (ctrl+C or down at the last line), stdin is
\* paused and no later step changes the offset, the listeners or the teardown
\* counts, or writes anything.
C7_TerminatedAbsorbing ==
    [][ HasQuit => (/\ ~flowing /\ ~flowing'
                    /\ startIndex' = startIndex
                    /\ listeners' = listeners
                    /\ out' = <<>>
                    /\ pauseCalls' = pauseCalls
                    /\ resetCalls' = resetCalls) ]_vars

\* a chunk arrived after down at the last line had ended the program
C7_Witness ==
    /\ HasQuit /\ lastEvent = "paused" /\ chunk = DownChunk
    /\ listeners = <<"onKeyPressed">> /\ startIndex = NumLines - 1

\* C8: in AwaitStart a return or line-feed key event leads to Viewing at
\* offset 0 with a clear screen and exactly one render from line 0; any other
\* key event that is not ctrl+C changes nothing and writes nothing.
C8_EnterStartsViewing ==
    [][ (AwaitStart /\ KeyDelivered' /\ ~IsCtrlC(TheKey'))
        => IF TheKey'.name \in {"return", "line-feed"}
           THEN Viewing' /\ startIndex' = 0 /\ out' = FirstRender(0)
           ELSE /\ AwaitStart' /\ out' = <<>>
                /\ UNCHANGED <<startIndex, listeners, pauseCalls, resetCalls>> ]_vars

\* line-feed started the viewer
C8_Witness ==
    /\ Viewing /\ KeyDelivered /\ TheKey.name = "line-feed"
    /\ startIndex = 0 /\ out = FirstRender(0)

\* the key table of the documentation: code -> name
DocumentedName(code) ==
    CASE code \in {<<LBracket, UpperA>>, <<CharO, UpperA>>} -> "up"
      [] code \in {<<LBracket, UpperB>>, <<CharO, UpperB>>} -> "down"
      [] code \in {<<LBracket, UpperC>>, <<CharO, UpperC>>} -> "right"
      [] code \in {<<LBracket, UpperD>>, <<CharO, UpperD>>} -> "left"
      [] code \in {<<LBracket, Digit5, Tilde>>,
                   <<LBracket, LBracket, Digit5, Tilde>>} -> "page-up"
      [] code \in {<<LBracket, Digit6, Tilde>>,
                   <<LBracket, LBracket, Digit6, Tilde>>} -> "page-down"

\* C9: for every entry of the key table, the chunk ESC followed by exactly
\* that code decodes to the documented name with isControl = FALSE.
C9_TableEntriesDecode ==
    \A code \in TableCodes :
        (Decoded /\ chunk = <<ESC>> \o code)
        => keys = <<[name |-> DocumentedName(code), isControl |-> FALSE]>>

\* the double-bracket page-down sequence has been decoded
C9_Witness ==
    /\ Decoded /\ chunk = <<ESC, LBracket, LBracket, Digit6, Tilde>>
    /\ keys = <<[name |-> "page-down", isControl |-> FALSE]>>

\* the letter of ctrl+letter for code c: 1 -> a .. 26 -> z; 0 -> code unit 96
CtrlLetters == <<"a", "b", "c", "d", "e", "f", "g", "h", "i", "j", "k", "l", "m",
                 "n", "o", "p", "q", "r", "s", "t", "u", "v", "w", "x", "y", "z">>
CtrlLetter(c) == IF c = 0 THEN "U+0060" ELSE CtrlLetters[c]

\* C10: a single-character chunk with code c <= 0x1A, other than \r and \n,
\* decodes to isControl = TRUE and the character of code c - 1 + code('a');
\* in particular \x03 decodes to ctrl+c.
C10_ControlRange ==
    /\ (Decoded /\ Len(chunk) = 1 /\ chunk[1] <= CtrlZ /\ chunk[1] \notin {CR, LF})
       => keys = <<[name |-> CtrlLetter(chunk[1]), isControl |-> TRUE]>>
    /\ (Decoded /\ chunk = <<3>>) => keys = <<[name |-> "c", isControl |-> TRUE]>>

\* ctrl+z, the upper end of the control range, has been decoded
C10_Witness ==
    /\ Decoded /\ chunk = <<CtrlZ>>
    /\ keys = <<[name |-> "z", isControl |-> TRUE]>>

\* C11: the literal matches come before the control range: \r decodes to
\* return, \n to line-feed, ESC and ESC ESC to escape, each with isControl
\* FALSE (never ctrl+m or ctrl+j).
C11_LiteralsFirst ==
    /\ (Decoded /\ chunk = <<CR>>) => keys = <<[name |-> "return", isControl |-> FALSE]>>
    /\ (Decoded /\ chunk = <<LF>>) => keys = <<[name |-> "line-feed", isControl |-> FALSE]>>
    /\ (Decoded /\ chunk \in {<<ESC>>, <<ESC, ESC>>})
       => keys = <<[name |-> "escape", isControl |-> FALSE]>>

\* \r has been decoded
C11_Witness ==
    /\ Decoded /\ chunk = <<CR>>
    /\ keys = <<[name |-> "return", isControl |-> FALSE]>>

\* an escape sequence (a chunk that starts with ESC and is not one of the
\* literals ESC, ESC ESC) whose reassembled code is not in the key table
UnlistedEscape(c) ==
    /\ c # <<>> /\ c[1] = ESC /\ c \notin {<<ESC>>, <<ESC, ESC>>}
    /\ LET parts == functionKeyCodeRegexExec(c)
       IN  ~(parts.matched /\ (parts.p1 \o parts.p2 \o parts.p4 \o parts.p6) \in TableCodes)

\* the modifier parameter m of a grammar match: the second numeric parameter
\* of the symbol form, else the numeric parameter of the letter form, else 1
ModifierParam(parts) ==
    IF parts.p3 # <<>> THEN ToNumber(parts.p3)
    ELSE IF parts.p5 # <<>> THEN ToNumber(parts.p5)
    ELSE 1
Bit2Set(n) == ((n \div 4) % 2) = 1

\* C12 as stated: every escape sequence whose code is not in the key table
\* decodes to exactly name "" and isControl FALSE.
C12_UnlistedIsPlain ==
    (Decoded /\ UnlistedEscape(chunk)) => keys = <<[name |-> "", isControl |-> FALSE]>>

\* C12 as amended: such a sequence decodes to name ""; isControl is TRUE
\* exactly when the sequence matches the grammar and bit 2 of m - 1 is set
\* for its modifier parameter m, and FALSE otherwise.
C12_UnlistedHasEmptyName ==
    (Decoded /\ UnlistedEscape(chunk))
    => LET parts == functionKeyCodeRegexExec(chunk)
       IN  keys = <<[name |-> "",
                     isControl |-> parts.matched /\ Bit2Set(ModifierParam(parts) - 1)]>>

\* ESC [ 1 ; 5 O decoded: an unlisted code with the ctrl modifier
C12_Witness ==
    /\ Decoded /\ chunk = <<ESC, LBracket, Digit1, Semicolon, Digit5, CharO>>
    /\ keys = <<[name |-> "", isControl |-> TRUE]>>

Vocabulary ==
    {"return", "line-feed", "escape", "up", "down", "left", "right", "page-up",
     "page-down", ""} \cup {CtrlLetters[i] : i \in 1..26}

\* C13: the name of every emitted key event belongs to the closed vocabulary
\* (return, line-feed, escape, a..z, the arrow and page keys, or "").
C13_ClosedVocabulary ==
    \A i \in 1..Len(keys) : keys[i].name \in Vocabulary


\* the rows printScreen writes after the header
ContentOf(scr) == SubSeq(scr, 7, Len(scr))
Min2(a, b) == IF a <= b THEN a ELSE b
Max2(a, b) == IF a >= b THEN a ELSE b

\* C14: for any collection, offset within it and geometry, printScreen emits
\* the 6 header lines and then exactly max(0, min(rows - 1 - 6, len - offset))
\* content rows, taken consecutively from index offset.
C14_RowBudget ==
    Printed =>
        LET n == Max2(0, Min2(rows - 1 - 6, Len(resumeLines) - startIndex))
        IN  /\ Len(screen) = 6 + n
            /\ \A k \in 1..6 : screen[k].kind = "header" /\ screen[k].index = k
            /\ \A k \in 1..n :
                  /\ screen[6 + k].kind = "row"
                  /\ screen[6 + k].index = startIndex + k - 1

\* a render cut short by the terminal height, starting inside the collection
C14_Witness ==
    /\ Printed
    /\ rows = 9
    /\ Len(resumeLines) = 3
    /\ startIndex = 1
    /\ Len(screen) = 8
    /\ screen[7].index = 1
    /\ screen[8].index = 2

\* C15: within one render a content row carries the year label if and only if
\* its year differs from the year of the row emitted just before it (the first
\* emitted row always carries it); every other row gets the six-space gutter.
C15_LabelOnBandChange ==
    Printed =>
        LET rs == ContentOf(screen)
        IN  \A k \in 1..Len(rs) :
               LET year    == resumeLines[rs[k].index + 1].year
                   changed == k = 1 \/ resumeLines[rs[k - 1].index + 1].year # year
               IN  rs[k].label = (IF changed THEN year ELSE -1)

\* three rows, the second in the year of the first, the third in a new year
C15_Witness ==
    /\ Printed
    /\ Len(screen) = 9
    /\ screen[7].label = FirstYear + 2
    /\ screen[8].label = -1
    /\ screen[9].label = FirstYear + 3

\* C20: a rendered HorizontalLine is replaced by a rule of exactly
\* columns - 8 dashes drawn in the color of the line's year.
C20_RuleFillsRowInBandColor ==
    Printed =>
        \A k \in 7..Len(screen) :
            resumeLines[screen[k].index + 1].hr =>
                /\ screen[k].dashes = columns - 8
                /\ screen[k].dashColor = ColorOf(resumeLines[screen[k].index + 1].year)

\* a step in which the timer callback ran
TickStep == lastEvent' = "tick"
\* a step in which a chunk was decoded and its key emitted
KeyStep == lastEvent' = "data" /\ keys' # <<>>
NextKey == keys'[1]

\* C16: with the timer firing fairly the controller eventually leaves Prologue
\* for AwaitStart; each tick writes one character of the prologue, the tick
\* after the last character cancels the timer and subscribes onEnterPressed
\* exactly once, and no tick happens after that.
C16_PrologueEnds ==
    /\ <>AwaitStart
    /\ [][TickStep =>
            IF index < PrologueLen
            THEN /\ out' = <<Tok("prologue", index)>>
                 /\ index' = index + 1
                 /\ timerActive'
                 /\ listeners' = <<>>
            ELSE /\ out' = <<>>
                 /\ ~timerActive'
                 /\ listeners' = <<"onEnterPressed">>]_vars
    /\ [][~timerActive => ~TickStep]_vars

\* the tick after the last character has just run
C16_Witness == AwaitStart /\ lastEvent = "tick" /\ index = PrologueLen /\ out = <<>>

\* C17: in Viewing, 'down' below the last index adds one to the offset and
\* 'up' above 0 takes one off; each such key writes one clear-screen and then
\* one full render at the new offset, whatever key came before.
C17_ScrollStep ==
    [][(Viewing /\ KeyStep /\ ~IsCtrlC(NextKey)) =>
          /\ (NextKey.name = "down" /\ startIndex < NumLines - 1) =>
                /\ startIndex' = startIndex + 1
                /\ out' = FirstRender(startIndex + 1)
                /\ screen' = PrintScreenLines(startIndex + 1, resumeLines, rows, columns)
          /\ (NextKey.name = "up" /\ startIndex > 0) =>
                /\ startIndex' = startIndex - 1
                /\ out' = FirstRender(startIndex - 1)
                /\ screen' = PrintScreenLines(startIndex - 1, resumeLines, rows, columns)]_vars

\* 'up' right after scrolling down twice: one redraw, at offset 1
C17_Witness ==
    /\ Viewing /\ KeyDelivered /\ TheKey.name = "up"
    /\ startIndex = 1
    /\ out = FirstRender(1)
    /\ screen = PrintScreenLines(1, resumeLines, rows, columns)

\* C18: in Viewing every key other than 'up', 'down' and ctrl+C leaves the
\* offset, the listeners and the terminal output as they were.
C18_OtherKeysIgnored ==
    [][(Viewing /\ KeyStep /\ ~IsCtrlC(NextKey) /\ NextKey.name \notin {"up", "down"}) =>
          /\ UNCHANGED <<startIndex, listeners, screen, flowing, pauseCalls, resetCalls>>
          /\ out' = <<>>]_vars

\* page-down pressed while viewing from offset 1
C18_Witness ==
    /\ Viewing /\ KeyDelivered /\ TheKey.name = "page-down"
    /\ startIndex = 1
    /\ out = <<>>

\* C19: while the timer is active a chunk causes no transition, no render and
\* no teardown, the last tick handles no key that arrived before it, and once
\* a key handler is subscribed the timer callback never runs again.
C19_TimerThenKeys ==
    /\ [](timerActive => listeners = <<>>)
    /\ [][(timerActive /\ lastEvent' = "data") =>
             /\ UNCHANGED <<timerActive, index, listeners, startIndex, flowing,
                            screen, pauseCalls, resetCalls>>
             /\ out' = <<>>]_vars
    /\ [][TickStep => UNCHANGED <<startIndex, flowing, screen, pauseCalls, resetCalls>>]_vars
    /\ [][listeners # <<>> => ~TickStep]_vars

\* ctrl+C decoded while the prologue is still being written: nobody listens
C19_Witness ==
    /\ timerActive /\ flowing
    /\ lastEvent = "data" /\ chunk = CtrlCChunk /\ IsCtrlC(TheKey)
    /\ listeners = <<>>
    /\ resetCalls = 0

\* the parts of the chunk when it matches the CSI/SS3 grammar
ChunkParts == functionKeyCodeRegexExec(chunk)

\* C21: for every sequence matching the CSI/SS3 grammar, isControl is TRUE
\* iff bit 2 is set in m - 1, m being the second numeric parameter of the
\* symbol form, else the numeric parameter of the letter form, else 1; the
\* name is looked up without the modifier digits, so ESC[1;5A and ESC[5A
\* both decode to ctrl+up.
C21_ControlFromModifier ==
    /\ (Decoded /\ chunk \notin {<<ESC>>, <<ESC, ESC>>} /\ ChunkParts.matched) =>
          /\ Len(keys) = 1
          /\ keys[1].isControl = Bit2Set(ModifierParam(ChunkParts) - 1)
          /\ keys[1].name = KeyNameOf(ChunkParts.p1 \o ChunkParts.p2
                                      \o ChunkParts.p4 \o ChunkParts.p6)
    /\ (Decoded /\ chunk \in {<<ESC, LBracket, Digit1, Semicolon, Digit5, UpperA>>,
                              <<ESC, LBracket, Digit5, UpperA>>})
          => keys = <<[name |-> "up", isControl |-> TRUE]>>

\* ESC[5A has been decoded: up with the ctrl bit
C21_Witness ==
    /\ Decoded /\ chunk = <<ESC, LBracket, Digit5, UpperA>>
    /\ keys = <<[name |-> "up", isControl |-> TRUE]>>

\* C22: each chunk produces at most one key event: an empty chunk emits
\* none, and a chunk holding two key sequences emits a single event, the one
\* of the leading sequence. (A leading lone ESC is left out: ESC followed by a
\* sequence is itself one sequence of the grammar.)
C22_OneEventForLeadingSequence ==
    Decoded =>
        /\ Len(keys) <= 1
        /\ (chunk = <<>> => keys = <<>>)
        /\ \A a \in KeySequences \ {<<ESC>>}, b \in KeySequences :
               chunk = a \o b => keys = <<DecodeKey(a)>>

\* C23: a single raw byte above 127 is decoded as ESC followed by the byte
\* with its high bit cleared: the event is the one of that two-character text.
C23_HighBitRepair ==
    (ByteRead /\ raw[1] >= HighBit) => keys = <<DecodeKey(<<ESC, raw[1] - HighBit>>)>>

\* C24: at most one keypress handler is subscribed at any time, and it is the
\* one of the phase: none while the timer runs, onEnterPressed alone from the
\* end of the prologue until the first render, onKeyPressed alone from the
\* first render on, for as long as stdin is flowing.
C24_OneHandlerPerPhase ==
    /\ Len(listeners) <= 1
    /\ timerActive => listeners = <<>>
    /\ (~timerActive /\ flowing /\ screen = <<>>) => listeners = <<"onEnterPressed">>
    /\ (flowing /\ screen # <<>>) => listeners = <<"onKeyPressed">>

\* Enter has just handed over from onEnterPressed to onKeyPressed
C24_Witness ==
    /\ KeyDelivered /\ TheKey.name = "return"
    /\ out = FirstRender(0)
    /\ flowing /\ listeners = <<"onKeyPressed">>

\* C25: in Viewing the last render starts at the current offset; the offset
\* never changes without a render, and every render is at the offset the
\* step leaves behind.
C25_ScreenInSync ==
    /\ [](Viewing =>
            /\ screen = PrintScreenLines(startIndex, resumeLines, rows, columns)
            /\ Len(screen) > 6
            /\ screen[7].index = startIndex)
    /\ [][startIndex' # startIndex =>
            \E i \in 1..Len(out') : out'[i] = Tok("printScreen", startIndex')]_vars
    /\ [][\A i \in 1..Len(out') :
            out'[i].op = "printScreen" => out'[i].arg = startIndex']_vars

\* scrolled down twice: the screen starts at line 2
C25_Witness ==
    /\ Viewing /\ KeyDelivered /\ TheKey.name = "down"
    /\ startIndex = 2
    /\ Len(screen) > 6 /\ screen[7].index = 2
====
